---- MODULE Spec2Model ----
(***************************************************************************)
(* qbittorrent-gluetun-port-sync: the orchestrator (src/src/sync.py) and   *)
(* the shared health state (src/src/health.py).                            *)
(*                                                                         *)
(* Spec        the process: main -> wait_for_services -> initial sync_port *)
(*             -> run loop, interleaved with the health server's reads.    *)
(*             A HealthState method is one step here: its lock makes it    *)
(*             atomic, which SpecHealth establishes.                       *)
(* SpecHealth  the HealthState object alone, statement by statement, with  *)
(*             a writer thread and a reader thread contending for _lock.   *)
(***************************************************************************)
EXTENDS Integers, Sequences, FiniteSets, TLC

\* ------------------------------------------------------------------ bounds
MaxPort == 2
MaxStartupAttempts == 2
MaxVerifyAttempts == 2

Ports == 1..MaxPort

\* ----------------------------------------------------------- result values
\* Python's None in a result's port field.
None == -1
\* f"{result.error}" of a result built without an error.
NoError == "None"

\* GluetunResult / QBittorrentResult: the same four fields.
Result(success, port, error, is_auth_error) ==
    [success |-> success, port |-> port, error |-> error,
     is_auth_error |-> is_auth_error]

\* The results GluetunClient.get_forwarded_port returns (check_ready returns
\* the same): both auth errors, both successes without a port, a success
\* with each port, and two of the failures, which the orchestrator tells
\* apart by their text only.
GluetunResults ==
    { Result(FALSE, None, "Authentication failed", TRUE),
      Result(FALSE, None, "Access forbidden", TRUE),
      Result(TRUE, None, "No port forwarded (VPN may be disconnected)", FALSE),
      Result(TRUE, None, "No port forwarded (port forwarding not active)", FALSE),
      Result(FALSE, None, "Server error: 500", FALSE),
      Result(FALSE, None, "Request timed out", FALSE) }
    \cup { Result(TRUE, p, NoError, FALSE) : p \in Ports }

\* What _request hands back instead of a response: a failed login or a
\* transport error.
QbtRequestErrors ==
    { Result(FALSE, None, "Authentication failed", TRUE),
      Result(FALSE, None, "Authentication failed (invalid credentials)", TRUE),
      Result(FALSE, None, "Request timed out", FALSE) }

\* The results QBittorrentClient.get_listen_port returns (check_ready
\* returns the same), one text for each kind of failure.
QbtReadResults ==
    QbtRequestErrors
    \cup { Result(FALSE, None, "Failed to get preferences: 403", FALSE) }
    \cup { Result(TRUE, p, NoError, FALSE) : p \in Ports }

\* The results QBittorrentClient.set_listen_port(port) returns, likewise.
QbtWriteResults(port) ==
    QbtRequestErrors
    \cup { Result(FALSE, None, "Failed to set port: 403", FALSE),
           Result(TRUE, port, NoError, FALSE) }

\* The local verify_result before the verification loop has assigned it.
Unbound == Result(FALSE, None, "<unbound local>", FALSE)
\* str(e) of the UnboundLocalError that reading it raises.
UnboundLocalError ==
    "cannot access local variable 'verify_result' where it is not associated with a value"

\* ------------------------------------------------------------ health state
\* A reason is the text as the sequence of its pieces: a service name is a
\* piece of its own, so that "the reason names the service" can be decided.
Gluetun == "Gluetun"
qBittorrent == "qBittorrent"

RECURSIVE Join(_, _)
\* sep.join(parts)
Join(sep, parts) ==
    IF parts = <<>> THEN <<>>
    ELSE IF Len(parts) = 1 THEN parts[1]
    ELSE parts[1] \o <<sep>> \o Join(sep, Tail(parts))

\* A state that starts out healthy.
HealthStateInit_Healthy ==
    [healthy |-> TRUE, reason |-> <<>>,
     gluetun_ok |-> FALSE, qbittorrent_ok |-> FALSE]

\* HealthState.__init__
HealthStateInit ==
    [healthy |-> FALSE, reason |-> <<"Starting up">>,
     gluetun_ok |-> FALSE, qbittorrent_ok |-> FALSE]

\* An override that also forgets what was known of the services.
set_healthy_ClearsFlags(h, healthy, reason) ==
    [healthy |-> healthy, reason |-> reason,
     gluetun_ok |-> FALSE, qbittorrent_ok |-> FALSE]

\* HealthState.set_healthy
set_healthy(h, healthy, reason) ==
    [h EXCEPT !.healthy = healthy, !.reason = reason]

\* Each service reported under the other's name.
Reasons_Swapped(gluetun_ok, qbittorrent_ok) ==
    (IF ~gluetun_ok THEN << <<qBittorrent, " unreachable">> >> ELSE <<>>)
    \o (IF ~qbittorrent_ok THEN << <<Gluetun, " unreachable">> >> ELSE <<>>)

\* The reasons list set_service_status builds when a service is down.
Reasons(gluetun_ok, qbittorrent_ok) ==
    (IF ~gluetun_ok THEN << <<Gluetun, " unreachable">> >> ELSE <<>>)
    \o (IF ~qbittorrent_ok THEN << <<qBittorrent, " unreachable">> >> ELSE <<>>)

\* Healthy as soon as one service is up.
set_service_status_AnyUp(h, gluetun_ok, qbittorrent_ok) ==
    [gluetun_ok |-> gluetun_ok,
     qbittorrent_ok |-> qbittorrent_ok,
     healthy |-> (gluetun_ok \/ qbittorrent_ok),
     reason |-> IF gluetun_ok \/ qbittorrent_ok THEN <<>>
                ELSE Join(", ", Reasons(gluetun_ok, qbittorrent_ok))]

\* HealthState.set_service_status
set_service_status(h, gluetun_ok, qbittorrent_ok) ==
    [gluetun_ok |-> gluetun_ok,
     qbittorrent_ok |-> qbittorrent_ok,
     healthy |-> (gluetun_ok /\ qbittorrent_ok),
     reason |-> IF gluetun_ok /\ qbittorrent_ok THEN <<>>
                ELSE Join(", ", Reasons(gluetun_ok, qbittorrent_ok))]

\* HealthState.get_status
get_status(h) == <<h.healthy, h.reason>>

\* The reason without the service it is about.
GluetunAuthReason_Bare(res) == <<"Auth error: ", res.error>>
\* f"Gluetun auth error: {gluetun_result.error}"
GluetunAuthReason(res) == <<Gluetun, " auth error: ", res.error>>
\* f"qBittorrent auth error: {qbt_result.error}"
QbtAuthReason(res) == <<qBittorrent, " auth error: ", res.error>>

\* Whether the text of a reason names a service.
Names(reason, service) == \E i \in 1..Len(reason) : reason[i] = service

\* ------------------------------------------------------- the HTTP boundary
\* A value of a JSON payload, as far as `is None`, `== 0` and int() tell
\* values apart: null (or the key missing), the integer v, the string of
\* v's decimal digits, a string that is no number, the number v + 0.5.
JNull == [t |-> "null", v |-> 0]
JInt(n) == [t |-> "int", v |-> n]
JDigits(n) == [t |-> "digits", v |-> n]
JText == [t |-> "text", v |-> 0]
JReal(n) == [t |-> "real", v |-> n]
JsonValues ==
    {JNull, JText}
    \cup {JInt(n) : n \in 0..MaxPort}
    \cup {JDigits(n) : n \in 0..MaxPort}
    \cup {JReal(n) : n \in 0..MaxPort}

\* Python's `port == 0`: a string never equals 0, nor does v + 0.5.
EqualsZero(j) == j.t = "int" /\ j.v = 0
\* int(port) raises ValueError on a string that is no number.
IntRaises(j) == j.t = "text"
\* int(port) otherwise: the integer, the parsed digits, the truncation.
IntOf(j) == j.v

\* What one HTTP exchange gives the client: an exception of requests, or a
\* response with its status code and body. The body: whether
\* response.json() parses, the value under the key the client reads, and
\* whether response.text is "Ok." up to case and blanks.
Response(exc, status, parses, value, text_ok) ==
    [exc |-> exc, status |-> status, parses |-> parses, value |-> value,
     text_ok |-> text_ok]
Timeout == Response("Timeout", 0, FALSE, JNull, FALSE)
NoResponse == Response("none", 0, FALSE, JNull, FALSE)
StatusOnly(status) == Response("none", status, FALSE, JNull, FALSE)
Payloads ==
    {Response("none", 200, FALSE, JNull, FALSE)}
    \cup {Response("none", 200, TRUE, j, FALSE) : j \in JsonValues}

\* The gateway's answers to GET /v1/portforward.
GluetunResponses ==
    {Timeout} \cup {StatusOnly(c) : c \in {401, 403, 404, 500, 302}}
    \cup Payloads

\* f"...: {response.status_code}"
StatusText(prefix, status) ==
    CASE status = 302 -> prefix \o "302"
      [] status = 403 -> prefix \o "403"
      [] status = 404 -> prefix \o "404"
      [] status = 500 -> prefix \o "500"
      [] OTHER -> prefix \o "?"

\* GluetunClient.get_forwarded_port, from the exchange to the result.
get_forwarded_port(response) ==
    IF response.exc # "none" THEN Result(FALSE, None, "Request timed out", FALSE)
    ELSE IF response.status = 401
    THEN Result(FALSE, None, "Authentication failed", TRUE)
    ELSE IF response.status = 403
    THEN Result(FALSE, None, "Access forbidden", TRUE)
    ELSE IF response.status = 404
    THEN Result(TRUE, None, "No port forwarded (VPN may be disconnected)", FALSE)
    ELSE IF response.status >= 500
    THEN Result(FALSE, None, StatusText("Server error: ", response.status), FALSE)
    ELSE IF response.status # 200
    THEN Result(FALSE, None, StatusText("Unexpected status: ", response.status),
                FALSE)
    ELSE IF ~response.parses
    THEN Result(FALSE, None, "Invalid response format", FALSE)
    ELSE IF response.value = JNull \/ EqualsZero(response.value)
    THEN Result(TRUE, None, "No port forwarded (port forwarding not active)",
                FALSE)
    ELSE IF IntRaises(response.value)
    THEN Result(FALSE, None, "Invalid response format", FALSE)
    ELSE Result(TRUE, IntOf(response.value), NoError, FALSE)

\* The None in the error slot of the pair _request returns, and the result
\* slot of a call that has not returned.
Nothing == Result(FALSE, None, "<None>", FALSE)

\* QBittorrentClient.get_listen_port, from _request's pair to the result.
get_listen_port(response, error) ==
    IF error # Nothing THEN error
    ELSE IF response.status # 200
    THEN Result(FALSE, None,
                StatusText("Failed to get preferences: ", response.status), FALSE)
    ELSE IF ~response.parses
    THEN Result(FALSE, None, "Invalid response format", FALSE)
    ELSE IF response.value = JNull
    THEN Result(FALSE, None, "listen_port not in response", FALSE)
    ELSE IF IntRaises(response.value)
    THEN Result(FALSE, None, "Invalid response format", FALSE)
    ELSE Result(TRUE, IntOf(response.value), NoError, FALSE)

\* QBittorrentClient.set_listen_port(port), likewise.
set_listen_port(port, response, error) ==
    IF error # Nothing THEN error
    ELSE IF response.status # 200
    THEN Result(FALSE, None, StatusText("Failed to set port: ", response.status),
                FALSE)
    ELSE Result(TRUE, port, NoError, FALSE)

\* The client's answers to POST /api/v2/auth/login.
LoginResponses ==
    {Timeout, StatusOnly(403), StatusOnly(500),
     Response("none", 200, FALSE, JNull, TRUE),
     Response("none", 200, FALSE, JNull, FALSE)}
\* The client's answers to a data request.
DataResponses ==
    {Timeout, StatusOnly(403), StatusOnly(500)} \cup Payloads

\* QBittorrentClient._login after its POST, from the exchange to the result.
LoginResult(response) ==
    IF response.exc # "none"
    THEN Result(FALSE, None, "Login request timed out", FALSE)
    ELSE IF response.status = 403
    THEN Result(FALSE, None, "Authentication failed", TRUE)
    ELSE IF response.status # 200
    THEN Result(FALSE, None, StatusText("Login failed: ", response.status), FALSE)
    ELSE IF ~response.text_ok
    THEN Result(FALSE, None, "Authentication failed (invalid credentials)", TRUE)
    ELSE Result(TRUE, None, NoError, FALSE)

\* QBittorrentClient.__init__, and no call in progress. username: whether
\* config.qbittorrent_username is set.
QBittorrentClientInit(username) ==
    [username |-> username, authenticated |-> FALSE,
     pc |-> "idle", op |-> "none", arg |-> None, retry_auth |-> TRUE,
     http |-> <<>>, response |-> NoResponse, error |-> Nothing,
     result |-> Nothing]

\* GluetunClient.__init__: no exchange yet.
GluetunClientInit == [response |-> NoResponse, result |-> Nothing]

\* ------------------------------------------------------------- the process
VARIABLES
    config,            \* Config: startup_max_attempts, verify_max_attempts
    health,            \* the HealthState instance main creates
    pc,                \* where the orchestrator (main thread) is
    inRun,             \* the cycle is one of run()'s, not main's initial one
    attempt,           \* the loop variable of the gate / verification loop
    gluetun_ready,     \* wait_for_services locals
    qbittorrent_ready,
    gluetun_port,      \* sync_port locals
    current_port,
    verify_result,
    ret,               \* what the gate / the cycle returned
    calls,             \* the collaborator calls and sleeps of this gate run
                       \* or of this cycle, in order
    lastWrite,         \* the last write to health: its method and a bit
                       \* that flips at every write
    obs,               \* what the health server's last get_status returned
    world,             \* the collaborators' servers: whether their answers
                       \* have settled, and then the gateway's forwarded
                       \* port and the client's listening port
    \* the two clients taken alone (SpecClients)
    qbt,               \* the QBittorrentClient and the call it is serving
    glu,               \* the GluetunClient's last exchange and its result
    \* the HealthState object taken alone (SpecHealth)
    lock,              \* who holds _lock
    wpc, wop,          \* the writer: its position, the call it is making
    rpc, rlocal,       \* the reader: its position, the fields it has read
    committed          \* (healthy, reason) as the last complete write left it

procVars == <<config, health, pc, inRun, attempt, gluetun_ready,
              qbittorrent_ready, gluetun_port, current_port, verify_result,
              ret, calls, lastWrite, obs>>
objVars == <<lock, wpc, wop, rpc, rlocal, committed>>
orchVars == <<config, pc, inRun, attempt, gluetun_ready, qbittorrent_ready,
              gluetun_port, current_port, verify_result, ret, calls>>
clientVars == <<qbt, glu>>
vars == <<procVars, objVars, world, clientVars>>

\* int(os.environ.get(...)): any integer is accepted; a value below 1 makes
\* the loop body run no time at all, as 0 does.
Configs ==
    [startup_max_attempts : 0..MaxStartupAttempts,
     verify_max_attempts : 0..MaxVerifyAttempts]

Call(op, arg, res) == [op |-> op, arg |-> arg, res |-> res]

\* ---- the servers behind the two clients
\* Nothing is known of the servers: any result may come back.
Unsettled == [settled |-> FALSE, forwarded_port |-> None, listen_port |-> None]
\* The gateway forwards one fixed port, the client answers every request.
Settled(forwarded, listening) ==
    [settled |-> TRUE, forwarded_port |-> forwarded, listen_port |-> listening]

\* What get_forwarded_port / check_ready of the gateway can return now.
GluetunAnswers ==
    IF world.settled
    THEN {Result(TRUE, world.forwarded_port, NoError, FALSE)}
    ELSE GluetunResults
\* What get_listen_port / check_ready of the client can return now.
QbtReadAnswers ==
    IF world.settled
    THEN {Result(TRUE, world.listen_port, NoError, FALSE)}
    ELSE QbtReadResults
\* What set_listen_port(port) can return now.
QbtWriteAnswers(port) ==
    IF world.settled
    THEN {Result(TRUE, port, NoError, FALSE)}
    ELSE QbtWriteResults(port)
\* The servers after set_listen_port(port) has returned update_result: a
\* settled client listens on the port it accepted.
AfterWrite(w, port, update_result) ==
    IF w.settled /\ update_result.success
    THEN [w EXCEPT !.listen_port = port]
    ELSE w
\* time.sleep(...) in the trace of calls: it returns nothing.
Sleep(which) == Call(which, None, Result(TRUE, None, NoError, FALSE))

NoObs == <<>>
Written(method) == [op |-> method, bit |-> 1 - lastWrite.bit]

\* The object's own variables, at rest while the process runs.
ObjIdle ==
    /\ lock = "free"
    /\ wpc = "idle"
    /\ wop = [op |-> "none", healthy |-> FALSE, reason |-> <<>>,
              gluetun_ok |-> FALSE, qbittorrent_ok |-> FALSE]
    /\ rpc = "idle"
    /\ rlocal = <<>>
    /\ committed = get_status(HealthStateInit)

Init ==
    /\ config \in Configs
    /\ health = HealthStateInit
    /\ pc = "main"
    /\ inRun = FALSE
    /\ attempt = 0
    /\ gluetun_ready = FALSE
    /\ qbittorrent_ready = FALSE
    /\ gluetun_port = None
    /\ current_port = None
    /\ verify_result = Unbound
    /\ ret = "none"
    /\ calls = <<>>
    /\ lastWrite = [op |-> "__init__", bit |-> 0]
    /\ obs = NoObs
    /\ world = Unsettled
    /\ qbt = QBittorrentClientInit(FALSE)
    /\ glu = GluetunClientInit
    /\ ObjIdle

\* ---- wait_for_services
\* An authentication failure taken for "not ready yet".
ProbeAborts_Never(result) == FALSE
\* `if result.is_auth_error: return False`
ProbeAborts(result) == result.is_auth_error
\* `if result.success: ..._ready = True`
ProbeReady(result) == result.success
\* `if gluetun_ready and qbittorrent_ready:`
BothReady(g, q) == g /\ q
\* A sleep after the last attempt too.
SleepsAfterAttempt_Always(n, max) == n <= max
\* `if attempt < self.config.startup_max_attempts: time.sleep(...)`
SleepsAfterAttempt(n, max) == n < max

\* main up to the call of wait_for_services, and the gate's entry: the
\* flags are cleared and the loop is entered, or skipped when the range is
\* empty.
MainStart ==
    /\ pc = "main"
    /\ attempt' = 1
    /\ gluetun_ready' = FALSE
    /\ qbittorrent_ready' = FALSE
    /\ IF 1 <= config.startup_max_attempts
       THEN pc' = "check_gluetun" /\ ret' = "none"
       ELSE pc' = "gate_done" /\ ret' = "False"
    /\ UNCHANGED <<config, health, inRun, gluetun_port, current_port,
                   verify_result, calls, lastWrite, obs, objVars, world, clientVars>>

GateCheckGluetun ==
    /\ pc = "check_gluetun"
    /\ IF gluetun_ready
       THEN /\ pc' = "check_qbittorrent"
            /\ UNCHANGED <<calls, gluetun_ready, ret>>
       ELSE \E result \in GluetunAnswers :
            /\ calls' = Append(calls, Call("gluetun.check_ready", None, result))
            /\ IF ProbeAborts(result)
               THEN pc' = "gate_done" /\ ret' = "False"
                    /\ UNCHANGED gluetun_ready
               ELSE /\ gluetun_ready' = ProbeReady(result)
                    /\ pc' = "check_qbittorrent"
                    /\ UNCHANGED ret
    /\ UNCHANGED <<config, health, inRun, attempt, qbittorrent_ready,
                   gluetun_port, current_port, verify_result, lastWrite, obs,
                   objVars, world, clientVars>>

GateCheckQbittorrent ==
    /\ pc = "check_qbittorrent"
    /\ IF qbittorrent_ready
       THEN /\ pc' = "end_attempt"
            /\ UNCHANGED <<calls, qbittorrent_ready, ret>>
       ELSE \E result \in QbtReadAnswers :
            /\ calls' = Append(calls, Call("qbittorrent.check_ready", None, result))
            /\ IF ProbeAborts(result)
               THEN pc' = "gate_done" /\ ret' = "False"
                    /\ UNCHANGED qbittorrent_ready
               ELSE /\ qbittorrent_ready' = ProbeReady(result)
                    /\ pc' = "end_attempt"
                    /\ UNCHANGED ret
    /\ UNCHANGED <<config, health, inRun, attempt, gluetun_ready,
                   gluetun_port, current_port, verify_result, lastWrite, obs,
                   objVars, world, clientVars>>

\* The end of one attempt: both ready (health write, return True), or the
\* sleep and the next attempt, or the loop's end (return False).
GateEndAttempt ==
    /\ pc = "end_attempt"
    /\ IF BothReady(gluetun_ready, qbittorrent_ready)
       THEN /\ health' = set_service_status(health, TRUE, TRUE)
            /\ lastWrite' = Written("set_service_status")
            /\ ret' = "True"
            /\ pc' = "gate_done"
            /\ UNCHANGED <<attempt, calls>>
       ELSE /\ calls' = IF SleepsAfterAttempt(attempt, config.startup_max_attempts)
                        THEN Append(calls, Sleep("sleep(startup_check_interval)"))
                        ELSE calls
            /\ IF attempt + 1 <= config.startup_max_attempts
               THEN attempt' = attempt + 1 /\ pc' = "check_gluetun"
                    /\ UNCHANGED ret
               ELSE pc' = "gate_done" /\ ret' = "False" /\ UNCHANGED attempt
            /\ UNCHANGED <<health, lastWrite>>
    /\ UNCHANGED <<config, inRun, gluetun_ready, qbittorrent_ready,
                   gluetun_port, current_port, verify_result, obs, objVars, world, clientVars>>

\* The locals and the trace of a cycle that is about to start.
StartCycle ==
    /\ pc' = "fetch"
    /\ attempt' = 0
    /\ gluetun_ready' = FALSE
    /\ qbittorrent_ready' = FALSE
    /\ gluetun_port' = None
    /\ current_port' = None
    /\ verify_result' = Unbound
    /\ ret' = "none"
    /\ calls' = <<>>

\* main after the gate: sys.exit(1), or the initial sync_port.
MainAfterGate ==
    /\ pc = "gate_done"
    /\ IF ret # "True"
       THEN /\ pc' = "exited"
            /\ UNCHANGED <<attempt, gluetun_ready, qbittorrent_ready,
                           gluetun_port, current_port, verify_result, ret,
                           calls>>
       ELSE StartCycle
    /\ UNCHANGED <<config, health, inRun, lastWrite, obs, objVars, world, clientVars>>

\* ---- sync_port
\* A comparison the wrong way round.
PortUnchanged_Inverted(current, target) == current # target
\* `if current_port == gluetun_port:`
PortUnchanged(current, target) == current = target
\* A test for 0 where the result carries None.
NoPortForwarded_Zero(result) == result.port = 0
\* `if gluetun_result.port is None:`
NoPortForwarded(result) == result.port = None
\* A comparison that any port satisfies.
PortVerified_AnyPort(result, target) == result.port # None
\* `if verify_result.port == gluetun_port:`
PortVerified(result, target) == result.port = target
\* `for attempt in range(1, self.config.verify_max_attempts + 1)`: the loop
\* body runs for this value of attempt.
InVerifyRange(n, max) == n <= max

\* Step 1: the gateway's forwarded port.
SyncFetch ==
    /\ pc = "fetch"
    /\ \E gluetun_result \in GluetunAnswers :
        /\ calls' = Append(calls, Call("gluetun.get_forwarded_port", None,
                                       gluetun_result))
        /\ IF gluetun_result.is_auth_error
           THEN /\ health' = set_healthy(health, FALSE,
                                         GluetunAuthReason(gluetun_result))
                /\ lastWrite' = Written("set_healthy")
                /\ ret' = "False" /\ pc' = "returned"
                /\ UNCHANGED gluetun_port
           ELSE IF ~gluetun_result.success
           THEN /\ health' = set_service_status(health, FALSE, TRUE)
                /\ lastWrite' = Written("set_service_status")
                /\ ret' = "False" /\ pc' = "returned"
                /\ UNCHANGED gluetun_port
           ELSE IF NoPortForwarded(gluetun_result)
           THEN /\ health' = set_service_status(health, TRUE, TRUE)
                /\ lastWrite' = Written("set_service_status")
                /\ ret' = "True" /\ pc' = "returned"
                /\ UNCHANGED gluetun_port
           ELSE /\ gluetun_port' = gluetun_result.port
                /\ pc' = "read"
                /\ UNCHANGED <<health, lastWrite, ret>>
    /\ UNCHANGED <<config, inRun, attempt, gluetun_ready, qbittorrent_ready,
                   current_port, verify_result, obs, objVars, world, clientVars>>

\* Steps 2 and 3: the client's port, and the comparison.
SyncRead ==
    /\ pc = "read"
    /\ \E qbt_result \in QbtReadAnswers :
        /\ calls' = Append(calls, Call("qbittorrent.get_listen_port", None,
                                       qbt_result))
        /\ IF qbt_result.is_auth_error
           THEN /\ health' = set_healthy(health, FALSE, QbtAuthReason(qbt_result))
                /\ lastWrite' = Written("set_healthy")
                /\ ret' = "False" /\ pc' = "returned"
                /\ UNCHANGED current_port
           ELSE IF ~qbt_result.success
           THEN /\ health' = set_service_status(health, TRUE, FALSE)
                /\ lastWrite' = Written("set_service_status")
                /\ ret' = "False" /\ pc' = "returned"
                /\ UNCHANGED current_port
           ELSE /\ current_port' = qbt_result.port
                /\ health' = set_service_status(health, TRUE, TRUE)
                /\ lastWrite' = Written("set_service_status")
                /\ IF PortUnchanged(qbt_result.port, gluetun_port)
                   THEN ret' = "True" /\ pc' = "returned"
                   ELSE pc' = "write" /\ UNCHANGED ret
    /\ UNCHANGED <<config, inRun, attempt, gluetun_ready, qbittorrent_ready,
                   gluetun_port, verify_result, obs, objVars, world, clientVars>>

\* Step 4: the write; its result is logged and nothing else.
SyncWrite ==
    /\ pc = "write"
    /\ \E update_result \in QbtWriteAnswers(gluetun_port) :
        /\ calls' = Append(calls, Call("qbittorrent.set_listen_port",
                                       gluetun_port, update_result))
        /\ world' = AfterWrite(world, gluetun_port, update_result)
    /\ pc' = "verify"
    /\ attempt' = 1
    /\ UNCHANGED <<config, health, inRun, gluetun_ready, qbittorrent_ready,
                   gluetun_port, current_port, verify_result, ret, lastWrite,
                   obs, objVars, clientVars>>

\* Step 5, one pass of the verification loop: sleep, re-read, compare.
SyncVerify ==
    /\ pc = "verify"
    /\ InVerifyRange(attempt, config.verify_max_attempts)
    /\ \E result \in QbtReadAnswers :
        /\ calls' = calls \o <<Sleep("sleep(verify_delay)"),
                               Call("qbittorrent.get_listen_port", None, result)>>
        /\ verify_result' = result
        /\ IF result.success /\ PortVerified(result, gluetun_port)
           THEN ret' = "True" /\ pc' = "returned" /\ UNCHANGED attempt
           ELSE attempt' = attempt + 1 /\ UNCHANGED <<pc, ret>>
    /\ UNCHANGED <<config, health, inRun, gluetun_ready, qbittorrent_ready,
                   gluetun_port, current_port, lastWrite, obs, objVars, world, clientVars>>

\* The exhausted verification reported through the health state.
SyncVerifyExhausted_MarksUnhealthy ==
    /\ pc = "verify"
    /\ ~InVerifyRange(attempt, config.verify_max_attempts)
    /\ ret' = IF verify_result = Unbound THEN "raise" ELSE "False"
    /\ pc' = "returned"
    /\ health' = set_healthy(health, FALSE, <<"Port verification failed">>)
    /\ lastWrite' = Written("set_healthy")
    /\ UNCHANGED <<config, inRun, attempt, gluetun_ready,
                   qbittorrent_ready, gluetun_port, current_port,
                   verify_result, calls, obs, objVars, world, clientVars>>

\* The loop is over without a match: the warning formats verify_result.port,
\* which raises when no pass has assigned verify_result.
SyncVerifyExhausted ==
    /\ pc = "verify"
    /\ ~InVerifyRange(attempt, config.verify_max_attempts)
    /\ ret' = IF verify_result = Unbound THEN "raise" ELSE "False"
    /\ pc' = "returned"
    /\ UNCHANGED <<config, health, inRun, attempt, gluetun_ready,
                   qbittorrent_ready, gluetun_port, current_port,
                   verify_result, calls, lastWrite, obs, objVars, world, clientVars>>

\* ---- main after the initial sync_port, and run
\* main calls sync_port outside any try: what it raises ends the process;
\* what it returns is dropped and run() starts with a cycle at once.
MainAfterInitialSync ==
    /\ pc = "returned"
    /\ ~inRun
    /\ IF ret = "raise"
       THEN /\ pc' = "crashed"
            /\ UNCHANGED <<inRun, attempt, gluetun_ready, qbittorrent_ready,
                           gluetun_port, current_port, verify_result, ret,
                           calls>>
       ELSE inRun' = TRUE /\ StartCycle
    /\ UNCHANGED <<config, health, lastWrite, obs, objVars, world, clientVars>>

\* The poll sleep inside the try block: skipped when the cycle raised.
RunAfterCycle_SleepInTry ==
    /\ pc = "returned"
    /\ inRun
    /\ IF ret = "raise"
       THEN /\ health' = set_healthy(health, FALSE, <<UnboundLocalError>>)
            /\ lastWrite' = Written("set_healthy")
            /\ StartCycle
       ELSE /\ pc' = "poll_sleep"
            /\ UNCHANGED <<health, lastWrite, attempt, gluetun_ready,
                           qbittorrent_ready, gluetun_port, current_port,
                           verify_result, ret, calls>>
    /\ UNCHANGED <<config, inRun, obs, objVars, world, clientVars>>

\* run without its except clause: what sync_port raises ends the process.
RunAfterCycle_NoExcept ==
    /\ pc = "returned"
    /\ inRun
    /\ pc' = IF ret = "raise" THEN "crashed" ELSE "poll_sleep"
    /\ UNCHANGED <<config, health, lastWrite, inRun, attempt, gluetun_ready,
                   qbittorrent_ready, gluetun_port, current_port,
                   verify_result, ret, calls, obs, objVars, world, clientVars>>

\* run: the except clause, then the poll sleep begins.
RunAfterCycle ==
    /\ pc = "returned"
    /\ inRun
    /\ IF ret = "raise"
       THEN /\ health' = set_healthy(health, FALSE, <<UnboundLocalError>>)
            /\ lastWrite' = Written("set_healthy")
       ELSE UNCHANGED <<health, lastWrite>>
    /\ pc' = "poll_sleep"
    /\ UNCHANGED <<config, inRun, attempt, gluetun_ready, qbittorrent_ready,
                   gluetun_port, current_port, verify_result, ret, calls, obs,
                   objVars, world, clientVars>>

\* run: the poll sleep is over, `while True` starts the next cycle.
RunNextCycle ==
    /\ pc = "poll_sleep"
    /\ StartCycle
    /\ UNCHANGED <<config, health, inRun, lastWrite, obs, objVars, world, clientVars>>

\* ---- the health server's thread
\* HealthHandler.do_GET on /health: one get_status, atomic under the lock.
\* The server thread is a daemon: it serves while the process lives.
GetStatus ==
    /\ pc \notin {"exited", "crashed"}
    /\ obs' = get_status(health)
    /\ UNCHANGED <<config, health, pc, inRun, attempt, gluetun_ready,
                   qbittorrent_ready, gluetun_port, current_port,
                   verify_result, ret, calls, lastWrite, objVars, world, clientVars>>

Next ==
    \/ MainStart
    \/ GateCheckGluetun
    \/ GateCheckQbittorrent
    \/ GateEndAttempt
    \/ MainAfterGate
    \/ SyncFetch
    \/ SyncRead
    \/ SyncWrite
    \/ SyncVerify
    \/ SyncVerifyExhausted
    \/ MainAfterInitialSync
    \/ RunAfterCycle
    \/ RunNextCycle
    \/ GetStatus

Spec == Init /\ [][Next]_vars

\* ------------------------------------------------- vocabulary of the claims
IsOk(res) == res.success /\ ~res.is_auth_error
IsOkPort(res) == IsOk(res) /\ res.port # None
IsOkNoPort(res) == IsOk(res) /\ res.port = None
IsAuthFailure(res) == res.is_auth_error
IsTransientFailure(res) == ~res.success /\ ~res.is_auth_error

FETCH == "gluetun.get_forwarded_port"
READ == "qbittorrent.get_listen_port"
WRITE == "qbittorrent.set_listen_port"
GPROBE == "gluetun.check_ready"
QPROBE == "qbittorrent.check_ready"
GATESLEEP == "sleep(startup_check_interval)"
VERIFYSLEEP == "sleep(verify_delay)"

CallsOf(op) == {i \in DOMAIN calls : calls[i].op = op}
Count(op) == Cardinality(CallsOf(op))

\* calls is the trace of a reconcile cycle whose gateway fetch has returned.
Fetched == Len(calls) >= 1 /\ calls[1].op = FETCH
\* ... and whose first client read has returned too.
FirstRead == Fetched /\ Len(calls) >= 2 /\ calls[2].op = READ
\* The cycle is over and the orchestrator has not gone on.
CycleReturned == pc = "returned"
\* The cycle is over (its trace is kept until the next one starts).
CycleOver == pc \in {"returned", "poll_sleep", "crashed"}
\* The verification reads: every client read after the first.
VerifyReads == {i \in CallsOf(READ) : i > 2}

\* calls is the trace of a gate run.
InGate == pc \in {"check_gluetun", "check_qbittorrent", "end_attempt",
                  "gate_done", "exited"}
GateReturned == pc = "gate_done"

\* ------------------------------------------------------------------ claims
\* C1: a cycle where the gateway returns Ok(P) and the first client read
\* returns Ok(P) is over after these two calls: it returns success, makes no
\* write and no verification read (the client is read once), and leaves
\* health healthy with an empty reason.
C1_SteadyStateNoWrite ==
    (FirstRead /\ IsOkPort(calls[1].res) /\ IsOkPort(calls[2].res)
       /\ calls[2].res.port = calls[1].res.port)
    => /\ CycleOver
       /\ ret = "True"
       /\ Count(WRITE) = 0
       /\ Count(READ) = 1
       /\ Len(calls) = 2
       /\ health.healthy /\ health.reason = <<>>

C1_Witness ==
    /\ CycleReturned /\ FirstRead
    /\ IsOkPort(calls[1].res) /\ IsOkPort(calls[2].res)
    /\ calls[2].res.port = calls[1].res.port
    /\ ret = "True"

\* C2: in a cycle where the gateway returns Ok(T) and the first client read
\* returns Ok(C), C # T, whatever verify_max_attempts is configured: exactly
\* one set_listen_port call is made, at least one verification read follows
\* it, and the cycle returns, with success exactly when one of the first
\* verify_max_attempts verification reads returned Ok(T).
C2_OneWriteThenVerify ==
    (CycleReturned /\ FirstRead /\ IsOkPort(calls[1].res)
       /\ IsOkPort(calls[2].res) /\ calls[2].res.port # calls[1].res.port)
    => /\ Count(WRITE) = 1
       /\ \E w \in CallsOf(WRITE) : \E v \in VerifyReads : v > w
       /\ ret \in {"True", "False"}
       /\ (ret = "True") <=>
            \E v \in VerifyReads :
               /\ Cardinality({u \in VerifyReads : u <= v})
                    <= config.verify_max_attempts
               /\ IsOkPort(calls[v].res)
               /\ calls[v].res.port = calls[1].res.port

\* C3: a cycle where the gateway returns Ok with no port is over after that
\* one call: it returns success, the client is neither read nor written, and
\* health is set to both-reachable (healthy, empty reason), whatever it was.
C3_NoPortNoClientCall ==
    (Fetched /\ IsOkNoPort(calls[1].res))
    => /\ CycleOver
       /\ ret = "True"
       /\ Len(calls) = 1
       /\ Count(READ) = 0 /\ Count(WRITE) = 0
       /\ health = [healthy |-> TRUE, reason |-> <<>>,
                    gluetun_ok |-> TRUE, qbittorrent_ok |-> TRUE]

\* The gateway answers "no port" in a cycle that started with the client
\* recorded unreachable (as the health server last saw it).
C3_Witness ==
    /\ CycleReturned /\ Fetched /\ IsOkNoPort(calls[1].res)
    /\ obs # NoObs /\ obs[1] = FALSE /\ Names(obs[2], qBittorrent)
    /\ health.healthy

\* C4: an AuthFailure from the gateway fetch, or from the first client read,
\* is the cycle's last collaborator call: the cycle returns failure and
\* health is unhealthy with a reason that names the failing service (and
\* carries the collaborator's error).
C4_AuthFailureEndsCycle ==
    /\ (Fetched /\ IsAuthFailure(calls[1].res))
       => /\ CycleOver /\ ret = "False" /\ Len(calls) = 1
          /\ ~health.healthy
          /\ Names(health.reason, Gluetun)
          /\ ~Names(health.reason, qBittorrent)
          /\ health.reason[Len(health.reason)] = calls[1].res.error
    /\ (FirstRead /\ IsAuthFailure(calls[2].res))
       => /\ CycleOver /\ ret = "False" /\ Len(calls) = 2
          /\ ~health.healthy
          /\ Names(health.reason, qBittorrent)
          /\ ~Names(health.reason, Gluetun)
          /\ health.reason[Len(health.reason)] = calls[2].res.error

\* The client's first read fails authentication in a cycle of run() that
\* the health server saw start healthy.
C4_Witness ==
    /\ CycleReturned /\ FirstRead /\ IsAuthFailure(calls[2].res)
    /\ inRun /\ obs = <<TRUE, <<>> >>
    /\ ~health.healthy

\* C5: the gate returns success only when each collaborator has answered a
\* check_ready with success, within startup_max_attempts probes of each; an
\* AuthFailure from either probe is the gate's last act (no further probe,
\* no further sleep) and the gate returns failure, whatever attempts remain
\* and whatever the other side's readiness; and a gate that returns with a
\* side that never answered with success returns failure.
C5_GateOutcome ==
    InGate =>
      /\ (GateReturned /\ ret = "True")
         => /\ \E i \in CallsOf(GPROBE) : IsOk(calls[i].res)
            /\ \E i \in CallsOf(QPROBE) : IsOk(calls[i].res)
            /\ Count(GPROBE) <= config.startup_max_attempts
            /\ Count(QPROBE) <= config.startup_max_attempts
      /\ \A i \in CallsOf(GPROBE) \cup CallsOf(QPROBE) :
            IsAuthFailure(calls[i].res)
            => i = Len(calls) /\ pc \in {"gate_done", "exited"} /\ ret = "False"
      /\ (GateReturned
            /\ (\/ \A i \in CallsOf(GPROBE) : ~IsOk(calls[i].res)
                \/ \A i \in CallsOf(QPROBE) : ~IsOk(calls[i].res)))
         => ret = "False"

\* The client fails authentication on the first attempt, with the gateway
\* already ready and attempts left.
C5_Witness ==
    /\ GateReturned /\ ret = "False"
    /\ attempt = 1 /\ config.startup_max_attempts >= 2
    /\ gluetun_ready
    /\ Len(calls) = 2 /\ calls[2].op = QPROBE /\ IsAuthFailure(calls[2].res)

\* The probes of one collaborator, in order.
ProbesOf(op) == SelectSeq(calls, LAMBDA c : c.op = op)

\* C6: in the gate, a collaborator whose check_ready has returned success is
\* not probed again (its successful probe is its last, so it has at most
\* one), no collaborator is probed more than startup_max_attempts times, and
\* the gate sleeps exactly once between two consecutive attempts: never
\* twice in a row, never before the first probe, never after the last
\* attempt or after success.
C6_GateProbesAndSleeps ==
    InGate =>
      /\ \A op \in {GPROBE, QPROBE} :
           /\ \A i \in 1..Len(ProbesOf(op)) :
                IsOk(ProbesOf(op)[i].res) => i = Len(ProbesOf(op))
           /\ Len(ProbesOf(op)) <= config.startup_max_attempts
      /\ Count(GATESLEEP) = (IF attempt >= 1 THEN attempt - 1 ELSE 0)
      /\ \A i \in CallsOf(GATESLEEP) :
           /\ i > 1 /\ calls[i - 1].op # GATESLEEP
           /\ pc \in {"gate_done", "exited"} => i < Len(calls)

\* The gateway is ready at the first attempt, the client only at a later
\* one: one gateway probe, and a sleep before each further client probe.
C6_Witness ==
    /\ GateReturned /\ ret = "True"
    /\ Count(GPROBE) = 1 /\ Count(QPROBE) >= 2
    /\ Count(GATESLEEP) = Count(QPROBE) - 1

\* ----------------------------------------------- the HealthState object alone
\* Its methods statement by statement. The writer is the orchestrator's
\* thread making any call of the two write methods; the reader is the health
\* server's thread in get_status.

\* A `with self._lock:` that excludes nobody.
CanAcquire_NoLock(l) == TRUE
\* `with self._lock:` blocks until the lock is free.
CanAcquire(l) == l = "free"

\* The reasons a caller passes to set_healthy (the default, an auth reason,
\* an exception's text).
ReasonArgs ==
    { <<>>,
      GluetunAuthReason(Result(FALSE, None, "Authentication failed", TRUE)),
      <<UnboundLocalError>> }

WriterCalls ==
    { [op |-> "set_healthy", healthy |-> b, reason |-> r,
       gluetun_ok |-> FALSE, qbittorrent_ok |-> FALSE] :
         b \in BOOLEAN, r \in ReasonArgs }
    \cup
    { [op |-> "set_service_status", healthy |-> FALSE, reason |-> <<>>,
       gluetun_ok |-> g, qbittorrent_ok |-> c] :
         g \in BOOLEAN, c \in BOOLEAN }

InitHealth ==
    /\ config = [startup_max_attempts |-> 0, verify_max_attempts |-> 0]
    /\ health = HealthStateInit
    /\ pc = "main"
    /\ inRun = FALSE
    /\ attempt = 0
    /\ gluetun_ready = FALSE
    /\ qbittorrent_ready = FALSE
    /\ gluetun_port = None
    /\ current_port = None
    /\ verify_result = Unbound
    /\ ret = "none"
    /\ calls = <<>>
    /\ lastWrite = [op |-> "__init__", bit |-> 0]
    /\ obs = NoObs
    /\ world = Unsettled
    /\ qbt = QBittorrentClientInit(FALSE)
    /\ glu = GluetunClientInit
    /\ ObjIdle

\* The orchestrator calls a write method.
WriterCall ==
    /\ wpc = "idle"
    /\ wop' \in WriterCalls
    /\ wpc' = "acquire"
    /\ UNCHANGED <<health, lastWrite, obs, lock, rpc, rlocal, committed,
                   orchVars, world, clientVars>>

WriterAcquire ==
    /\ wpc = "acquire"
    /\ CanAcquire(lock)
    /\ lock' = "writer"
    /\ wpc' = IF wop.op = "set_healthy" THEN "sh_healthy" ELSE "sss_gluetun_ok"
    /\ UNCHANGED <<health, lastWrite, obs, wop, rpc, rlocal, committed,
                   orchVars, world, clientVars>>

\* set_healthy: self._healthy = healthy
SetHealthy_healthy ==
    /\ wpc = "sh_healthy"
    /\ health' = [health EXCEPT !.healthy = wop.healthy]
    /\ wpc' = "sh_reason"
    /\ UNCHANGED <<lastWrite, obs, lock, wop, rpc, rlocal, committed, orchVars, world, clientVars>>

\* set_healthy: self._reason = reason
SetHealthy_reason ==
    /\ wpc = "sh_reason"
    /\ health' = [health EXCEPT !.reason = wop.reason]
    /\ wpc' = "release"
    /\ UNCHANGED <<lastWrite, obs, lock, wop, rpc, rlocal, committed, orchVars, world, clientVars>>

\* set_service_status: self._gluetun_ok = gluetun_ok
SetServiceStatus_gluetun_ok ==
    /\ wpc = "sss_gluetun_ok"
    /\ health' = [health EXCEPT !.gluetun_ok = wop.gluetun_ok]
    /\ wpc' = "sss_qbittorrent_ok"
    /\ UNCHANGED <<lastWrite, obs, lock, wop, rpc, rlocal, committed, orchVars, world, clientVars>>

\* set_service_status: self._qbittorrent_ok = qbittorrent_ok
SetServiceStatus_qbittorrent_ok ==
    /\ wpc = "sss_qbittorrent_ok"
    /\ health' = [health EXCEPT !.qbittorrent_ok = wop.qbittorrent_ok]
    /\ wpc' = "sss_healthy"
    /\ UNCHANGED <<lastWrite, obs, lock, wop, rpc, rlocal, committed, orchVars, world, clientVars>>

\* set_service_status: self._healthy = True / False, by the arguments
SetServiceStatus_healthy ==
    /\ wpc = "sss_healthy"
    /\ health' = [health EXCEPT
                    !.healthy = (wop.gluetun_ok /\ wop.qbittorrent_ok)]
    /\ wpc' = "sss_reason"
    /\ UNCHANGED <<lastWrite, obs, lock, wop, rpc, rlocal, committed, orchVars, world, clientVars>>

\* set_service_status: self._reason = "" / ", ".join(reasons)
SetServiceStatus_reason ==
    /\ wpc = "sss_reason"
    /\ health' = [health EXCEPT
                    !.reason = IF wop.gluetun_ok /\ wop.qbittorrent_ok
                               THEN <<>>
                               ELSE Join(", ", Reasons(wop.gluetun_ok,
                                                       wop.qbittorrent_ok))]
    /\ wpc' = "release"
    /\ UNCHANGED <<lastWrite, obs, lock, wop, rpc, rlocal, committed, orchVars, world, clientVars>>

\* The with block of the write method ends: the write is complete.
WriterRelease ==
    /\ wpc = "release"
    /\ lock' = "free"
    /\ wpc' = "idle"
    /\ committed' = get_status(health)
    /\ lastWrite' = Written(wop.op)
    /\ UNCHANGED <<health, obs, wop, rpc, rlocal, orchVars, world, clientVars>>

\* do_GET calls get_status.
ReaderCall ==
    /\ rpc = "idle"
    /\ rpc' = "acquire"
    /\ rlocal' = <<>>
    /\ UNCHANGED <<health, lastWrite, obs, lock, wpc, wop, committed, orchVars, world, clientVars>>

ReaderAcquire ==
    /\ rpc = "acquire"
    /\ CanAcquire(lock)
    /\ lock' = "reader"
    /\ rpc' = "read_healthy"
    /\ UNCHANGED <<health, lastWrite, obs, wpc, wop, rlocal, committed,
                   orchVars, world, clientVars>>

\* get_status: self._healthy is loaded
GetStatus_healthy ==
    /\ rpc = "read_healthy"
    /\ rlocal' = <<health.healthy>>
    /\ rpc' = "read_reason"
    /\ UNCHANGED <<health, lastWrite, obs, lock, wpc, wop, committed, orchVars, world, clientVars>>

\* get_status: self._reason is loaded, the tuple is built
GetStatus_reason ==
    /\ rpc = "read_reason"
    /\ rlocal' = <<rlocal[1], health.reason>>
    /\ rpc' = "release"
    /\ UNCHANGED <<health, lastWrite, obs, lock, wpc, wop, committed, orchVars, world, clientVars>>

\* The with block of get_status ends and the tuple is returned.
ReaderRelease ==
    /\ rpc = "release"
    /\ lock' = "free"
    /\ obs' = rlocal
    /\ rpc' = "idle"
    /\ UNCHANGED <<health, lastWrite, wpc, wop, rlocal, committed, orchVars, world, clientVars>>

NextHealth ==
    \/ WriterCall
    \/ WriterAcquire
    \/ SetHealthy_healthy
    \/ SetHealthy_reason
    \/ SetServiceStatus_gluetun_ok
    \/ SetServiceStatus_qbittorrent_ok
    \/ SetServiceStatus_healthy
    \/ SetServiceStatus_reason
    \/ WriterRelease
    \/ ReaderCall
    \/ ReaderAcquire
    \/ GetStatus_healthy
    \/ GetStatus_reason
    \/ ReaderRelease

SpecHealth == InitHealth /\ [][NextHealth]_vars

\* C7: when set_service_status(g, c) has run, whatever the state before it
\* (after a set_healthy override too), the status is the one its arguments
\* determine: (true, true) healthy with an empty reason; (false, true)
\* unhealthy with a reason naming the gateway only; (true, false) unhealthy
\* with a reason naming the client only; (false, false) unhealthy with a
\* reason naming both.
C7_ServiceStatusRecomputed ==
    (wpc = "release" /\ wop.op = "set_service_status")
    => LET g == wop.gluetun_ok
           c == wop.qbittorrent_ok
       IN /\ health.gluetun_ok = g /\ health.qbittorrent_ok = c
          /\ health.healthy = (g /\ c)
          /\ (g /\ c) => health.reason = <<>>
          /\ (~g /\ c) => /\ health.reason = <<"Gluetun", " unreachable">>
                          /\ Names(health.reason, Gluetun)
                          /\ ~Names(health.reason, qBittorrent)
          /\ (g /\ ~c) => /\ health.reason = <<"qBittorrent", " unreachable">>
                          /\ Names(health.reason, qBittorrent)
                          /\ ~Names(health.reason, Gluetun)
          /\ (~g /\ ~c) => /\ health.reason = <<"Gluetun", " unreachable", ", ",
                                                "qBittorrent", " unreachable">>
                           /\ Names(health.reason, Gluetun)
                           /\ Names(health.reason, qBittorrent)

\* set_service_status(false, false) has run on a state that a set_healthy
\* override had left healthy with a reason.
C7_Witness ==
    /\ wpc = "release" /\ wop.op = "set_service_status"
    /\ ~wop.gluetun_ok /\ ~wop.qbittorrent_ok
    /\ lastWrite.op = "set_healthy"
    /\ committed[1] = TRUE /\ committed[2] # <<>>
    /\ ~health.healthy

\* A step that is a health write.
HealthWritten == lastWrite' # lastWrite

\* C8 as stated: in every state of the process healthy implies both flags
\* and an empty reason; after a set_service_status write healthy is the
\* conjunction of the flags; and after a set_healthy(false, r) override the
\* status and the flags stay as they are until the next set_service_status
\* call.
C8_OverridePersistsUntilServiceStatus ==
    /\ [](health.healthy
            => health.gluetun_ok /\ health.qbittorrent_ok
               /\ health.reason = <<>>)
    /\ [](lastWrite.op = "set_service_status"
            => health.healthy = (health.gluetun_ok /\ health.qbittorrent_ok))
    /\ [][(lastWrite.op = "set_healthy"
             /\ lastWrite'.op # "set_service_status")
          => health' = health]_vars

\* C8, amended: in every state of the process healthy implies both flags and
\* an empty reason; after a set_service_status write healthy is the
\* conjunction of the flags; a set_healthy override leaves healthy false and
\* both flags as they were; and after it the status and the flags stay as
\* they are until the next health write, which is a set_service_status call
\* or a further set_healthy override.
C8_OverridePersistsUntilNextWrite ==
    /\ [](health.healthy
            => health.gluetun_ok /\ health.qbittorrent_ok
               /\ health.reason = <<>>)
    /\ [](lastWrite.op = "set_service_status"
            => health.healthy = (health.gluetun_ok /\ health.qbittorrent_ok))
    /\ [][(HealthWritten /\ lastWrite'.op = "set_healthy")
          => /\ ~health'.healthy
             /\ health'.gluetun_ok = health.gluetun_ok
             /\ health'.qbittorrent_ok = health.qbittorrent_ok]_vars
    /\ [][(lastWrite.op = "set_healthy" /\ ~HealthWritten)
          => health' = health]_vars

\* A client auth override stands, with both services still recorded
\* reachable, where the health server had seen a gateway auth override.
C8_Witness ==
    /\ inRun /\ CycleReturned
    /\ lastWrite.op = "set_healthy"
    /\ ~health.healthy /\ health.gluetun_ok /\ health.qbittorrent_ok
    /\ Names(health.reason, qBittorrent)
    /\ obs # NoObs /\ obs[1] = FALSE /\ Len(obs[2]) = 3
    /\ obs[2][1] = Gluetun /\ obs[2][2] = " auth error: "

\* C9: the pair get_status is about to return (both fields loaded, under
\* the lock) is the pair the initial state or the last complete write left:
\* no read sees a write in progress.
C9_NoTornRead ==
    rpc = "release" => rlocal = committed

\* get_status returns what a complete set_service_status left, while the
\* writer waits for the lock with its next call.
C9_Witness ==
    /\ rpc = "release" /\ lock = "reader"
    /\ wpc = "acquire"
    /\ lastWrite.op = "set_service_status"
    /\ rlocal[1] = FALSE /\ Names(rlocal[2], qBittorrent)

\* C10: until the gate has returned success the status is the initial one,
\* (false, "Starting up"), and so is every pair get_status has returned; the
\* gate's only health write is the both-reachable one it makes on success,
\* and a gate that fails (AuthFailure, attempts exhausted) and the exit that
\* follows write nothing.
C10_StartingUpUntilGateSuccess ==
    /\ (pc \in {"main", "check_gluetun", "check_qbittorrent", "end_attempt",
                "exited"}
          \/ (pc = "gate_done" /\ ret # "True"))
       => /\ get_status(health) = <<FALSE, <<"Starting up">> >>
          /\ obs \in {NoObs, <<FALSE, <<"Starting up">> >>}
          /\ lastWrite.op = "__init__"
    /\ (pc = "gate_done" /\ ret = "True")
       => /\ lastWrite = [op |-> "set_service_status", bit |-> 1]
          /\ health = [healthy |-> TRUE, reason |-> <<>>,
                       gluetun_ok |-> TRUE, qbittorrent_ok |-> TRUE]

\* The gate has failed on an AuthFailure after a transient failure, the
\* process has exited, and the health server had been read.
C10_Witness ==
    /\ pc = "exited"
    /\ obs = <<FALSE, <<"Starting up">> >>
    /\ Len(calls) >= 2
    /\ IsTransientFailure(calls[1].res)
    /\ IsAuthFailure(calls[Len(calls)].res)

\* C11: in every cycle the process executes after startup, main's initial
\* one as well as those of run, an exception that escapes sync_port is caught
\* and turned into set_healthy(false, <its message>), and the process goes
\* on: no cycle ends the process.
C11_NoCycleEndsTheProcess ==
    /\ pc # "crashed"
    /\ (pc = "poll_sleep" /\ ret = "raise")
       => get_status(health) = <<FALSE, <<UnboundLocalError>> >>

\* C12: sync_port ends by returning success or failure and never raises,
\* for every accepted configuration (verify_max_attempts below 1 too) and
\* every sequence of collaborator results.
C12_SyncPortNeverRaises ==
    CycleOver => ret \in {"True", "False"}

\* A step in which the orchestrator starts a reconcile cycle after another.
NextCycleStarts == pc \in {"returned", "poll_sleep"} /\ pc' = "fetch"
\* A step in which the orchestrator leaves a cycle that has returned or
\* raised.
LeavesCycle == pc = "returned" /\ pc' # "returned"

OrchNext ==
    \/ MainStart
    \/ GateCheckGluetun
    \/ GateCheckQbittorrent
    \/ GateEndAttempt
    \/ MainAfterGate
    \/ SyncFetch
    \/ SyncRead
    \/ SyncWrite
    \/ SyncVerify
    \/ SyncVerifyExhausted
    \/ MainAfterInitialSync
    \/ RunAfterCycle
    \/ RunNextCycle

\* The main thread alone (the health server's reads change nothing it
\* reads).
SpecLive == Init /\ [][OrchNext]_vars /\ WF_vars(OrchNext)

\* A cycle of run() has just ended in an AuthFailure (gateway fetch or first
\* client read).
AuthFailureEnded ==
    /\ inRun /\ CycleReturned /\ ret = "False"
    /\ Len(calls) \in {1, 2}
    /\ IsAuthFailure(calls[Len(calls)].res)

\* C14: once run() is entered the loop never exits: the process stays in
\* run() and (every call and sleep returning) again and again starts a cycle
\* and ends it, whatever the cycles' outcomes; a cycle that ended in an
\* AuthFailure is followed by the poll sleep and then by a fresh cycle, and
\* the first act of every cycle is to query the gateway.
C14_RunLoopsForever ==
    /\ [][inRun => inRun' /\ pc' \notin {"exited", "crashed"}]_vars
    /\ [](inRun => <>(pc = "fetch" /\ calls = <<>>))
    /\ [](inRun => <>(pc = "returned"))
    /\ [][(AuthFailureEnded /\ pc' # pc) => pc' = "poll_sleep"]_vars
    /\ AuthFailureEnded ~> (pc = "fetch" /\ calls = <<>>)
    /\ [][(inRun /\ pc = "fetch" /\ pc' # pc)
          => Len(calls') = 1 /\ calls'[1].op = FETCH]_vars

\* A cycle of run() has ended in the client's AuthFailure and the loop has
\* gone on to the poll sleep, the override standing.
C14_Witness ==
    /\ inRun /\ pc = "poll_sleep" /\ ret = "False"
    /\ Len(calls) = 2 /\ IsAuthFailure(calls[2].res)
    /\ ~health.healthy /\ Names(health.reason, qBittorrent)

\* C15: when the gateway fetch of a cycle returns TransientFailure, the
\* gateway is marked unreachable and the recorded client flag keeps the
\* value it had before the cycle: a client recorded unreachable is still
\* recorded unreachable, and the reason still names it.
C15_GatewayFailureKeepsClientFlag ==
    [][(pc = "fetch" /\ pc' = "returned"
          /\ IsTransientFailure(calls'[1].res))
       => /\ ~health'.gluetun_ok
          /\ health'.qbittorrent_ok = health.qbittorrent_ok
          /\ (~health.qbittorrent_ok => Names(health'.reason, qBittorrent))]_vars

\* C16: a TransientFailure at step 1 or 2 ends the cycle with failure and no
\* write. On a gateway failure the client is not queried at all and health
\* is healthy=false with the gateway-unreachable reason; on a client read
\* failure health is gateway-reachable / client-unreachable (healthy=false,
\* the reason naming only the client), and no set_listen_port or
\* verification read follows.
C16_TransientFailureEndsCycle ==
    /\ (Fetched /\ IsTransientFailure(calls[1].res))
       => /\ Len(calls) = 1
          /\ pc \in {"returned", "poll_sleep"}
          /\ ret = "False"
          /\ health = [healthy |-> FALSE,
                       reason |-> <<Gluetun, " unreachable">>,
                       gluetun_ok |-> FALSE, qbittorrent_ok |-> TRUE]
    /\ (FirstRead /\ IsTransientFailure(calls[2].res))
       => /\ Len(calls) = 2
          /\ pc \in {"returned", "poll_sleep"}
          /\ ret = "False"
          /\ health.gluetun_ok /\ ~health.qbittorrent_ok
          /\ ~health.healthy
          /\ Names(health.reason, qBittorrent)
          /\ ~Names(health.reason, Gluetun)

\* A cycle of run() ended at the client's first read with a transient
\* failure, wrote nothing, and the loop has gone on to its poll sleep.
C16_Witness ==
    /\ inRun /\ pc = "poll_sleep"
    /\ FirstRead /\ IsTransientFailure(calls[2].res)
    /\ Count(WRITE) = 0 /\ ret = "False"
    /\ get_status(health) = <<FALSE, <<qBittorrent, " unreachable">> >>

\* The collaborator an entry of the trace was a call to.
Collaborator(op) ==
    IF op \in {FETCH, GPROBE} THEN Gluetun
    ELSE IF op \in {READ, WRITE, QPROBE} THEN qBittorrent
    ELSE "none"

\* C17: AuthFailure is terminal wherever the orchestrator sees it: after a
\* collaborator call in a cycle (fetch, first read, write, verification
\* read) or in the gate has returned AuthFailure, no later call of the same
\* cycle or gate run goes to that collaborator.
C17_AuthFailureNeverRetried ==
    \A i \in DOMAIN calls :
        IsAuthFailure(calls[i].res)
        => \A j \in DOMAIN calls :
              j > i => Collaborator(calls[j].op) # Collaborator(calls[i].op)

\* C18: the write's outcome does not influence the cycle's result: after
\* set_listen_port has returned (success or any failure) verification always
\* runs, and the cycle returns success exactly when a verification read
\* returns the target port.
C18_ResultDecidedByVerification ==
    (CycleOver /\ Count(WRITE) = 1)
    => /\ VerifyReads # {}
       /\ ret \in {"True", "False"}
       /\ (ret = "True") <=>
            \E v \in VerifyReads :
               IsOk(calls[v].res) /\ calls[v].res.port = calls[1].res.port

\* The verification reads that returned the target port.
MatchingReads ==
    {v \in VerifyReads :
        IsOk(calls[v].res) /\ calls[v].res.port = calls[1].res.port}

\* C19: in a finished cycle that wrote, the number of verification reads is
\* the index of the first read that returned the target port, or
\* verify_max_attempts if none did; each read is preceded by exactly one
\* verify_delay sleep; a failed read uses up one attempt and the loop goes
\* on; nothing follows a matching read; on exhaustion the cycle returns
\* failure after exactly verify_max_attempts reads.
C19_VerificationLoopCounts ==
    (CycleOver /\ Count(WRITE) = 1)
    => /\ Count(VERIFYSLEEP) = Cardinality(VerifyReads)
       /\ \A v \in VerifyReads : calls[v - 1].op = VERIFYSLEEP
       /\ Cardinality(VerifyReads) <= config.verify_max_attempts
       /\ MatchingReads # {}
          => MatchingReads = {Len(calls)} /\ ret = "True"
       /\ MatchingReads = {}
          => /\ Cardinality(VerifyReads) = config.verify_max_attempts
             /\ ret = "False"

\* The first client read of the cycle has succeeded and the cycle goes on
\* or has just ended.
AfterFirstReadOk ==
    /\ FirstRead /\ IsOk(calls[2].res)
    /\ pc \in {"write", "verify", "returned"}

\* C20: after the first client read of a cycle has succeeded the cycle
\* writes health no more: through the write, the verification reads
\* (failed ones, AuthFailure included) and the return, failure included,
\* the status stays healthy=true with an empty reason, and it is still so
\* while the loop sleeps on a cycle that returned.
C20_NoHealthWriteAfterFirstRead ==
    /\ [](AfterFirstReadOk => get_status(health) = <<TRUE, <<>> >>)
    /\ []((pc = "poll_sleep" /\ FirstRead /\ IsOk(calls[2].res)
             /\ ret = "False")
          => get_status(health) = <<TRUE, <<>> >>)
    /\ [][(AfterFirstReadOk /\ pc \in {"write", "verify"})
          => (lastWrite' = lastWrite /\ health' = health)]_vars

\* A cycle of run() wrote, had its verification read answered with
\* AuthFailure, returned failure on exhaustion, and the status read during
\* the poll sleep shows healthy.
C20_Witness ==
    /\ inRun /\ pc = "poll_sleep" /\ ret = "False"
    /\ Count(WRITE) = 1
    /\ \E v \in VerifyReads : IsAuthFailure(calls[v].res)
    /\ MatchingReads = {}
    /\ get_status(health) = <<TRUE, <<>> >>

\* calls is the trace of a cycle that has passed its first step.
PastFetch == pc \in {"read", "write", "verify", "returned", "poll_sleep",
                     "crashed"}

\* C21: in every cycle the gateway is queried exactly once and at most one
\* write is issued; the port passed to set_listen_port, and the port every
\* verification read is compared with, is the port that cycle's one gateway
\* fetch returned: the target held while the cycle runs is that port, and a
\* verification read ends the cycle with success exactly when it succeeded
\* with that port.
C21_TargetIsThisCyclesFetch ==
    /\ [](PastFetch
          => /\ Fetched
             /\ Count(FETCH) = 1
             /\ Count(WRITE) <= 1
             /\ \A w \in CallsOf(WRITE) : calls[w].arg = calls[1].res.port
             /\ pc \in {"read", "write", "verify"}
                => gluetun_port = calls[1].res.port)
    /\ [][(pc = "verify" /\ Len(calls') > Len(calls))
          => LET read == calls'[Len(calls')] IN
             /\ read.op = READ
             /\ (pc' = "returned" /\ ret' = "True")
                <=> (IsOk(read.res) /\ read.res.port = calls[1].res.port)]_vars

\* A cycle of run() fetched port 2, found the client elsewhere, wrote 2,
\* saw a verification read that did not return 2 and then one that did.
C21_Witness ==
    /\ inRun /\ CycleReturned /\ ret = "True"
    /\ calls[1].res.port = 2
    /\ \E w \in CallsOf(WRITE) : calls[w].arg = 2
    /\ Cardinality(VerifyReads) = 2
    /\ \E v \in VerifyReads : IsOkPort(calls[v].res) /\ calls[v].res.port = 1
    /\ calls[Len(calls)].res.port = 2

\* ---- the servers settle
\* From this step on the gateway returns Ok(P) for one fixed port P, every
\* client read and write succeeds, and a write takes effect; the client
\* listens on some port when this happens. It happens before the gate or
\* where a cycle starts: servers that settle inside a cycle leave, at the
\* start of the next one, a state that settling there gives too, since the
\* settled answers are among those the unsettled servers can give.
WorldSettles ==
    /\ ~world.settled
    /\ pc \in {"main", "fetch"}
    /\ \E forwarded \in Ports, listening \in Ports :
        world' = Settled(forwarded, listening)
    /\ UNCHANGED <<procVars, objVars, clientVars>>

NextConverge ==
    \/ OrchNext
    \/ WorldSettles

\* The main thread scheduled fairly; the servers may settle or never do.
SpecConverge == Init /\ [][NextConverge]_vars /\ WF_vars(OrchNext)

\* The orchestrator is in a reconcile cycle or between two cycles.
InCycles == pc \in {"fetch", "read", "write", "verify", "returned",
                    "poll_sleep"}

\* The client listens on the forwarded port, health is healthy with no
\* reason, and the trace of the current cycle holds no write.
Converged ==
    /\ world.settled
    /\ world.listen_port = world.forwarded_port
    /\ get_status(health) = <<TRUE, <<>> >>
    /\ Count(WRITE) = 0

\* C22: convergence. Once the servers have settled (the gateway returns
\* Ok(P) for a fixed P, every client read and write succeeds, a write takes
\* effect), with verify_max_attempts >= 1 and the main thread scheduled
\* fairly, the reconcile cycles lead to a point from which on the client
\* listens on P, health is healthy, and no cycle issues a write.
C22_Convergence ==
    [](  (world.settled /\ InCycles /\ config.verify_max_attempts >= 1)
         => <>[]Converged)

\* The servers settled with the client on another port than the forwarded
\* one; a cycle of run() wrote it and saw it verified.
C22_Witness ==
    /\ world.settled /\ inRun /\ CycleReturned /\ ret = "True"
    /\ config.verify_max_attempts >= 1
    /\ Count(WRITE) = 1
    /\ calls[2].res.port # world.forwarded_port
    /\ world.listen_port = world.forwarded_port

\* --------------------------------------------------- the clients, alone
\* The two client objects under every answer their servers can give. qbt.http
\* is the trace of the call being served: the _login calls and the data
\* requests, in order.
InitClients ==
    /\ config = [startup_max_attempts |-> 0, verify_max_attempts |-> 0]
    /\ health = HealthStateInit
    /\ pc = "main"
    /\ inRun = FALSE
    /\ attempt = 0
    /\ gluetun_ready = FALSE
    /\ qbittorrent_ready = FALSE
    /\ gluetun_port = None
    /\ current_port = None
    /\ verify_result = Unbound
    /\ ret = "none"
    /\ calls = <<>>
    /\ lastWrite = [op |-> "__init__", bit |-> 0]
    /\ obs = NoObs
    /\ world = Unsettled
    /\ ObjIdle
    /\ \E username \in BOOLEAN : qbt = QBittorrentClientInit(username)
    /\ glu = GluetunClientInit

\* An entry of qbt.http.
LoginCall(how, response) == [kind |-> "_login", how |-> how, response |-> response]
DataRequest(response) == [kind |-> "data", how |-> "sent", response |-> response]

\* get_listen_port / set_listen_port(port) is called and calls _request
\* with retry_auth at its default.
QbtCall ==
    /\ qbt.pc \in {"idle", "done"}
    /\ \E op \in {"get_listen_port", "set_listen_port"} :
       \E port \in (IF op = "set_listen_port" THEN Ports ELSE {None}) :
        qbt' = [qbt EXCEPT !.pc = "login", !.op = op, !.arg = port,
                           !.retry_auth = TRUE, !.http = <<>>,
                           !.response = NoResponse, !.error = Nothing,
                           !.result = Nothing]
    /\ UNCHANGED <<procVars, objVars, world, glu>>

\* _request's first statements: _login(), and the return of its result when
\* it failed.
QbtLogin ==
    /\ qbt.pc = "login"
    /\ IF ~qbt.username
       THEN qbt' = [qbt EXCEPT !.authenticated = TRUE, !.pc = "data",
                      !.http = Append(@, LoginCall("no username", NoResponse))]
       ELSE IF qbt.authenticated
       THEN qbt' = [qbt EXCEPT !.pc = "data",
                      !.http = Append(@, LoginCall("authenticated", NoResponse))]
       ELSE \E response \in LoginResponses :
            LET login_result == LoginResult(response) IN
            qbt' = [qbt EXCEPT
                      !.authenticated = IF login_result.success THEN TRUE ELSE @,
                      !.http = Append(@, LoginCall("post", response)),
                      !.pc = IF login_result.success THEN "data" ELSE "return",
                      !.error = IF login_result.success THEN @ ELSE login_result]
    /\ UNCHANGED <<procVars, objVars, world, glu>>

\* A 403 that is never retried.
RetriesOn403_Never(response, retry_auth) == FALSE
\* `if response.status_code == 403 and retry_auth:`
RetriesOn403(response, retry_auth) ==
    response.exc = "none" /\ response.status = 403 /\ retry_auth

\* _request's data request: an exception becomes the error, a 403 with
\* retry_auth clears the flag and calls _request again with retry_auth
\* False, any other response is returned.
QbtData ==
    /\ qbt.pc = "data"
    /\ \E response \in DataResponses :
        IF response.exc # "none"
        THEN qbt' = [qbt EXCEPT
                       !.http = Append(@, DataRequest(response)),
                       !.error = Result(FALSE, None, "Request timed out", FALSE),
                       !.pc = "return"]
        ELSE IF RetriesOn403(response, qbt.retry_auth)
        THEN qbt' = [qbt EXCEPT
                       !.http = Append(@, DataRequest(response)),
                       !.authenticated = FALSE,
                       !.retry_auth = FALSE,
                       !.pc = "login"]
        ELSE qbt' = [qbt EXCEPT
                       !.http = Append(@, DataRequest(response)),
                       !.response = response,
                       !.pc = "return"]
    /\ UNCHANGED <<procVars, objVars, world, glu>>

\* _request has returned its pair: the calling method builds its result.
QbtReturn ==
    /\ qbt.pc = "return"
    /\ qbt' = [qbt EXCEPT
                 !.result = IF qbt.op = "get_listen_port"
                            THEN get_listen_port(qbt.response, qbt.error)
                            ELSE set_listen_port(qbt.arg, qbt.response,
                                                 qbt.error),
                 !.pc = "done"]
    /\ UNCHANGED <<procVars, objVars, world, glu>>

\* One call of GluetunClient.get_forwarded_port.
GluetunGet ==
    /\ \E response \in GluetunResponses :
        glu' = [response |-> response, result |-> get_forwarded_port(response)]
    /\ UNCHANGED <<procVars, objVars, world, qbt>>

NextClients ==
    \/ QbtCall
    \/ QbtLogin
    \/ QbtData
    \/ QbtReturn
    \/ GluetunGet

SpecClients == InitClients /\ [][NextClients]_vars

Min(S) == CHOOSE x \in S : \A y \in S : x <= y

\* The _login calls, the login POSTs and the data requests of the call
\* being served.
LoginCalls == {i \in DOMAIN qbt.http : qbt.http[i].kind = "_login"}
LoginPosts == {i \in LoginCalls : qbt.http[i].how = "post"}
DataRequests == {i \in DOMAIN qbt.http : qbt.http[i].kind = "data"}
Is403(entry) == entry.response.exc = "none" /\ entry.response.status = 403
\* _request has returned to the method that called it.
RequestOver == qbt.pc \in {"return", "done"}

\* C23: a _request ends after at most two data requests and at most two
\* login attempts. A 403 on the first data request clears the authenticated
\* flag and is followed by exactly one more _login and, when that succeeds,
\* one retry; a 403 on the retry is returned as the response, with no third
\* request. The flag becomes true only in _login, when no username is
\* configured or the login POST succeeded. A failed login is returned as the
\* error with no data request after it.
C23_RequestRetriesOnce ==
    /\ [](/\ Cardinality(DataRequests) <= 2
          /\ Cardinality(LoginCalls) <= 2
          /\ Len(qbt.http) <= 4)
    /\ [](RequestOver
          => /\ Cardinality(LoginCalls) >= 1
             /\ \A d \in DataRequests :
                  (d = Min(DataRequests) /\ Is403(qbt.http[d]))
                  => /\ Cardinality(LoginCalls) = 2
                     /\ Cardinality({l \in LoginCalls : l > d}) = 1
                     /\ (Cardinality(DataRequests) = 2)
                        <=> \A l \in LoginCalls :
                               l > d => \/ qbt.http[l].how # "post"
                                        \/ LoginResult(qbt.http[l].response).success
             /\ (Cardinality(DataRequests) = 2
                   /\ Is403(qbt.http[Len(qbt.http)]))
                => /\ qbt.error = Nothing
                   /\ qbt.response = qbt.http[Len(qbt.http)].response
             /\ qbt.http[Len(qbt.http)].kind = "_login"
                => /\ qbt.error = LoginResult(qbt.http[Len(qbt.http)].response)
                   /\ ~qbt.error.success
                   /\ qbt.response = NoResponse)
    /\ [][(qbt.pc = "data" /\ qbt'.pc = "login")
          => (~qbt'.authenticated /\ Is403(qbt'.http[Len(qbt'.http)])
              /\ Cardinality(DataRequests) = 0)]_vars
    /\ [][(~qbt.authenticated /\ qbt'.authenticated)
          => /\ qbt.pc = "login"
             /\ \/ ~qbt.username
                \/ LET last == qbt'.http[Len(qbt'.http)] IN
                   /\ last.kind = "_login" /\ last.how = "post"
                   /\ LoginResult(last.response).success]_vars
    /\ [][(qbt.pc = "login" /\ qbt'.pc = "return")
          => /\ ~qbt'.error.success
             /\ DataRequests = {d \in DOMAIN qbt'.http :
                                   qbt'.http[d].kind = "data"}]_vars

\* With a username configured: login, a 403 on the data request, a second
\* login that succeeds, a 403 on the retry, which get_listen_port reports.
C23_Witness ==
    /\ qbt.username /\ qbt.pc = "done" /\ qbt.op = "get_listen_port"
    /\ Len(qbt.http) = 4
    /\ LoginPosts = {1, 3} /\ DataRequests = {2, 4}
    /\ Is403(qbt.http[2]) /\ Is403(qbt.http[4])
    /\ qbt.authenticated
    /\ qbt.result = Result(FALSE, None, "Failed to get preferences: 403", FALSE)

\* The shape of a result: an auth error is a failure, a port comes with
\* success only.
WellFormed(r) ==
    /\ r.is_auth_error => ~r.success
    /\ r.port # None => r.success

\* C24: every result the two clients return is a well-formed tri-state;
\* the gateway client never returns port 0: HTTP 404 and a missing or zero
\* port in the payload are returned as success with no port; and a
\* successful result of the client's get_listen_port carries a port.
C24_ResultsWellFormed ==
    /\ glu.result # Nothing
       => /\ WellFormed(glu.result)
          /\ glu.result.port # 0
          /\ glu.response.status = 404 => IsOkNoPort(glu.result)
          /\ (glu.response.status = 200 /\ glu.response.parses
                /\ glu.response.value \in {JNull, JInt(0)})
             => IsOkNoPort(glu.result)
    /\ qbt.pc = "done"
       => /\ WellFormed(qbt.result)
          /\ (qbt.op = "get_listen_port" /\ qbt.result.success)
             => qbt.result.port # None

====
